---- MODULE Spec2Model ----
(***************************************************************************)
(* audio2txt: the orchestration core of TranscriptionPipeline              *)
(* (packages/core/audio2txt/pipeline/transcription_pipeline.py).           *)
(*                                                                         *)
(* The module also holds the task lifecycle of the API service             *)
(* (apps/api/services.py).  Its specifications:                            *)
(*   SpecMerge  the data path of one process() call with diarization:      *)
(*              transcribe() builds the Transcript, diarize() builds the   *)
(*              speakers and the timestamps, and the merge step attributes *)
(*              speakers to segments;                                      *)
(*   Spec       the control path: process_batch() running process() on     *)
(*              every input under an asyncio.Semaphore, each process()     *)
(*              in parallel, sequential or transcription-only mode, with   *)
(*              engines that fail with Exception subclasses;               *)
(*   SpecCancel the same control path with engine calls that may also end  *)
(*              with asyncio.CancelledError;                               *)
(*   SpecLive   Spec on an event loop that runs every ready step, with     *)
(*              capability calls that end (weak fairness);                 *)
(*   SpecScope  the resource scope: __aenter__ / __aexit__ around a body;  *)
(*   SpecScopedBatch  process_batch as the body of the resource scope;     *)
(*   SpecMergeAny  the merge step on a Transcript whose segments may       *)
(*              already carry a speaker_id;                                *)
(*   SpecTask   the task lifecycle of the API service.                     *)
(* Times are integers (a grid of seconds); Optional[str] is a sequence of  *)
(* length 0 (None) or 1 (the string).                                      *)
(***************************************************************************)
EXTENDS Integers, Sequences, FiniteSets, TLC

VARIABLES
    \* ---- data path (SpecMerge)
    transcribed,   \* the Transcript as transcribe() returned it
    diarized,      \* what diarize() returned: [speakers, timestamps]
    transcript,    \* the Transcript object the pipeline holds / returns
    mstate,        \* "ready" before the merge step, "merged" after
    \* ---- control path (Spec)
    options,       \* enable_diarization, parallel, and whether a diarization engine is set
    max_concurrent,\* the ceiling given to process_batch
    bstate,        \* process_batch: "gathering" (awaiting its tasks) or "returned"
    task,          \* per input: the process_with_semaphore task
    pstate,        \* per input: where its process() call stands
    tcall,         \* per input: the transcribe() call
    dcall,         \* per input: the diarize() call
    gexc,          \* per input: the exception set on the inner gather
    merged,        \* per input: the merge step has run
    first,         \* per input: the capability call that ended first (history)
    outcome,       \* per input: what the task ended with
    sem,           \* asyncio.Semaphore._value
    waiters,       \* asyncio.Semaphore._waiters, oldest first
    overtook,      \* a task ended before the task of an earlier input (history)
    admitted,      \* the inputs in the order their process() call started (history)
    raisable,      \* the kinds of exception the engines' calls may raise
    results,       \* the list process_batch returns
    \* ---- resource scope (SpecScope)
    scope,         \* where `async with pipeline` stands
    t_loaded,      \* the transcription engine holds its model
    d_loaded,      \* the diarization engine holds its model
    body,          \* how the body of the scope ended
    observed,      \* what the `async with` statement ended with, for its caller
    unloads,       \* the unload_model() calls of the current exit (history)
    rounds,        \* how many times the scope has been entered
    \* ---- task lifecycle of the API service (SpecTask)
    enabled,       \* NotificationManager.enabled
    rows,          \* per task: its row of the tasks table (status, progress)
    updates,       \* per task: the rows written for it, in order (history)
    at,            \* per task: Absent, the stage process_audio writes next, or RunEnded
    notifications, \* per task: the events send_task_update was called with (history)
    requests       \* per task: the requests posted to the webhook (history)

mvars == <<transcribed, diarized, transcript, mstate>>
cvars == <<options, max_concurrent, bstate, task, pstate, tcall, dcall, gexc,
           merged, first, outcome, sem, waiters, overtook, admitted, raisable,
           results>>
svars == <<scope, t_loaded, d_loaded, body, observed, unloads, rounds>>
avars == <<enabled, rows, updates, at, notifications, requests>>
vars == <<mvars, cvars, svars, avars>>

\* Bound of the API service: the tasks created
NumTasks == 2

TaskIds == 1..NumTasks

\* a task not yet created
Absent == 0

\* a task id without a row in the tasks table
NoRow == [status |-> "none", progress |-> 0]

\* the API service at rest, for the specifications of the pipeline
ApiIdle ==
    /\ enabled = FALSE
    /\ rows = [t \in TaskIds |-> NoRow]
    /\ updates = [t \in TaskIds |-> <<>>]
    /\ at = [t \in TaskIds |-> Absent]
    /\ notifications = [t \in TaskIds |-> <<>>]
    /\ requests = [t \in TaskIds |-> <<>>]

-----------------------------------------------------------------------------
(* Bounds of the data path: the longest segment list and turn list *)
MaxSegs == 2
MaxTurns == 2

\* the time grid: instants in seconds
Times == {0, 1, 2}

Max(a, b) == IF a >= b THEN a ELSE b
Min(a, b) == IF a <= b THEN a ELSE b

SeqsUpTo(S, n) == UNION {[1..k -> S] : k \in 0..n}

\* Optional[str]
None == <<>>
Some(s) == <<s>>
\* Python truthiness of an Optional[str]: None and "" are falsy
Truthy(opt) == opt # None /\ opt[1] # ""

-----------------------------------------------------------------------------
(* FasterWhisperEngine.transcribe: the segments the model yields become    *)
(* Segment objects with speaker_id=None, in the order yielded; the         *)
(* Transcript starts with speakers=[].  The text of the segment at         *)
(* position idx is written "w<idx>", its identifier is idx.                *)

\* what WhisperModel.transcribe yields: spans with start <= end
WhisperSpans == {sp \in [start : Times, end : Times] : sp.start <= sp.end}

Transcribe(raw) ==
    [id |-> "transcript",
     audio_id |-> "audio",
     segments |-> [idx \in 1..Len(raw) |->
                     [id |-> idx,
                      start |-> raw[idx].start,
                      end |-> raw[idx].end,
                      text |-> "w" \o ToString(idx),
                      speaker_id |-> None,
                      confidence |-> Some("avg_logprob"),
                      language |-> "zh"]],
     speakers |-> <<>>,
     language |-> "zh",
     processing_time |-> "transcribe",
     metadata |-> [model |-> "large-v3", device |-> "cuda"]]

-----------------------------------------------------------------------------
(* PyannoteDiarizationEngine.diarize, the parsing loop over itertracks().  *)

\* a track label is a string or an integer
StrLabel(s) == [isStr |-> TRUE, s |-> s, n |-> 0]
IntLabel(n) == [isStr |-> FALSE, s |-> "", n |-> n]
Labels == {IntLabel(0), StrLabel("SPEAKER_01"), StrLabel("")}

\* f"{n:02d}"
Format02d(n) == IF n < 10 THEN "0" \o ToString(n) ELSE ToString(n)

\* lines 159-162
SpeakerIdOf(label) ==
    IF label.isStr THEN label.s ELSE "SPEAKER_" \o Format02d(label.n)

\* an Annotation holds no empty segment: every track has start < end
Tracks == {tr \in [start : Times, end : Times, label : Labels] : tr.start < tr.end}

\* a variant that starts the dict afresh for a speaker not seen before
AccumulateSpeakerReset(speakers, id, duration) ==
    IF \E k \in 1..Len(speakers) : speakers[k].id = id
    THEN LET j == CHOOSE k \in 1..Len(speakers) : speakers[k].id = id
         IN [speakers EXCEPT ![j].total_speaking_time = @ + duration,
                             ![j].segment_count = @ + 1]
    ELSE <<[id |-> id, name |-> None,
            total_speaking_time |-> duration, segment_count |-> 1]>>

IndexOfSpeaker(speakers, id) ==
    IF \E k \in 1..Len(speakers) : speakers[k].id = id
    THEN CHOOSE k \in 1..Len(speakers) : speakers[k].id = id
    ELSE 0

\* lines 172-181: speakers_dict keeps first-seen order; the entry of the
\* track's speaker accumulates its duration and its count
AccumulateSpeaker(speakers, id, duration) ==
    LET k == IndexOfSpeaker(speakers, id)
        known == IF k = 0
                 THEN Append(speakers, [id |-> id, name |-> None,
                                        total_speaking_time |-> 0,
                                        segment_count |-> 0])
                 ELSE speakers
        j == IF k = 0 THEN Len(known) ELSE k
    IN [known EXCEPT ![j].total_speaking_time = @ + duration,
                     ![j].segment_count = @ + 1]

RECURSIVE DiarizeLoop(_, _, _, _)
DiarizeLoop(tracks, i, speakers, timestamps) ==
    IF i > Len(tracks) THEN [speakers |-> speakers, timestamps |-> timestamps]
    ELSE LET tr == tracks[i]
             speaker_id == SpeakerIdOf(tr.label)
         IN DiarizeLoop(tracks, i + 1,
                AccumulateSpeaker(speakers, speaker_id, tr.end - tr.start),
                Append(timestamps, [start |-> tr.start, end |-> tr.end,
                                    speaker_id |-> speaker_id]))

Diarize(tracks) == DiarizeLoop(tracks, 1, <<>>, <<>>)

-----------------------------------------------------------------------------
(* TranscriptionPipeline._merge_transcript_with_diarization                *)

\* a variant that forgets to clip the overlap at the segment's end
OverlapUnclipped(segment, ts) ==
    Max(0, ts.end - Max(segment.start, ts.start))

\* lines 150-152
Overlap(segment, ts) ==
    LET overlap_start == Max(segment.start, ts.start)
        overlap_end == Min(segment.end, ts.end)
    IN Max(0, overlap_end - overlap_start)

\* a variant with >= : the last of several equal turns wins
BetterOrEqual(overlap, max_overlap) == overlap >= max_overlap

\* line 154: a later turn replaces the best one only with a greater overlap
Better(overlap, max_overlap) == overlap > max_overlap

\* lines 146-156: the scan over the timestamps, carrying (best_speaker, max_overlap)
RECURSIVE ScanTurns(_, _, _, _, _)
ScanTurns(segment, timestamps, k, best_speaker, max_overlap) ==
    IF k > Len(timestamps)
    THEN [best_speaker |-> best_speaker, max_overlap |-> max_overlap]
    ELSE LET overlap == Overlap(segment, timestamps[k])
         IN IF Better(overlap, max_overlap)
            THEN ScanTurns(segment, timestamps, k + 1,
                           Some(timestamps[k].speaker_id), overlap)
            ELSE ScanTurns(segment, timestamps, k + 1, best_speaker, max_overlap)

\* a variant that labels a segment without a best speaker with a default one
AssignSpeakerDefault(segment, best_speaker, max_overlap) ==
    IF Truthy(best_speaker) /\ max_overlap > 0
    THEN [segment EXCEPT !.speaker_id = best_speaker]
    ELSE [segment EXCEPT !.speaker_id = Some("SPEAKER_00")]

\* a variant that clears the speaker of a segment without a best speaker
AssignSpeakerOrReset(segment, best_speaker, max_overlap) ==
    IF Truthy(best_speaker) /\ max_overlap > 0
    THEN [segment EXCEPT !.speaker_id = best_speaker]
    ELSE [segment EXCEPT !.speaker_id = None]

\* lines 158-159
AssignSpeaker(segment, best_speaker, max_overlap) ==
    IF Truthy(best_speaker) /\ max_overlap > 0
    THEN [segment EXCEPT !.speaker_id = best_speaker]
    ELSE segment

MergeSegment(segment, timestamps) ==
    LET best == ScanTurns(segment, timestamps, 1, None, 0)
    IN AssignSpeaker(segment, best.best_speaker, best.max_overlap)

\* a variant that keeps only the segments that got a speaker
RECURSIVE MergeLoopDropUnassigned(_, _, _)
MergeLoopDropUnassigned(segments, timestamps, i) ==
    IF i > Len(segments) THEN <<>>
    ELSE LET seg == MergeSegment(segments[i], timestamps)
             rest == MergeLoopDropUnassigned(segments, timestamps, i + 1)
         IN IF seg.speaker_id = None THEN rest ELSE <<seg>> \o rest

\* lines 145-163: every segment in turn, mutated in place; then the speakers
RECURSIVE MergeLoop(_, _, _)
MergeLoop(segments, timestamps, i) ==
    IF i > Len(segments) THEN segments
    ELSE MergeLoop([segments EXCEPT ![i] = MergeSegment(segments[i], timestamps)],
                   timestamps, i + 1)

\* a variant that attaches only the speakers some segment was assigned to
MergeTranscriptKeepingAssigned(t, speakers, timestamps) ==
    LET segs == MergeLoop(t.segments, timestamps, 1)
    IN [t EXCEPT !.segments = segs,
                 !.speakers = SelectSeq(speakers,
                     LAMBDA sp : \E k \in 1..Len(segs) : segs[k].speaker_id = Some(sp.id))]

MergeTranscriptWithDiarization(t, speakers, timestamps) ==
    [t EXCEPT !.segments = MergeLoop(t.segments, timestamps, 1),
              !.speakers = speakers]

\* process(), lines 71-72: the time of the whole call replaces that of the engine
SetProcessingTime(t) == [t EXCEPT !.processing_time = "process"]

-----------------------------------------------------------------------------
(* The control path: process(), _process_parallel, _process_sequential and *)
(* process_batch.  A capability call is "none" (not invoked), "running",   *)
(* "done" (it returned) or the kind of the exception it raised.            *)

\* Bounds of the control path: the inputs of a batch, the largest ceiling
NumInputs == 3
MaxConcurrent == 2

Inputs == 1..NumInputs

\* what a capability call may raise, by its place in the class hierarchy: an
\* Exception (FileNotFoundError for a missing file, a model or network error,
\* a TimeoutError), or asyncio.CancelledError, which derives from BaseException
ErrorKinds == {"Exception", "CancelledError"}

NoError == [stage |-> "none", kind |-> "none"]
Error(stage, kind) == [stage |-> stage, kind |-> kind]

Failed(call) == call \in ErrorKinds

\* the three booleans process() tests
Options == [enable_diarization : BOOLEAN, parallel : BOOLEAN,
            diarization_engine : BOOLEAN]

\* a variant that does not look at whether a diarization engine was given
BranchIgnoringEngine(opts) ==
    IF opts.enable_diarization /\ opts.parallel
    THEN "parallel"
    ELSE IF opts.enable_diarization
         THEN "sequential"
         ELSE "transcribe"

\* lines 53-69: the branch process() takes
Branch(opts) ==
    IF opts.enable_diarization /\ opts.diarization_engine /\ opts.parallel
    THEN "parallel"
    ELSE IF opts.enable_diarization /\ opts.diarization_engine
         THEN "sequential"
         ELSE "transcribe"

\* what a task ends with: the Transcript of its input, or the exception
\* raised (an exception object holds no reference to the input)
NoOutcome == [kind |-> "none", of |-> 0, error |-> NoError]
TranscriptOf(i) == [kind |-> "transcript", of |-> i, error |-> NoError]
Raised(i, exc) == [kind |-> "error", of |-> 0, error |-> exc]

\* a variant that returns the transcript when only diarization failed
ProcessResultKeepingTranscript(i, exc) ==
    IF exc = NoError \/ exc.stage = "diarization" THEN TranscriptOf(i) ELSE Raised(i, exc)

\* a variant that raises a new exception of the pipeline in place of the
\* one caught
ProcessResultWrapped(i, exc) ==
    IF exc = NoError THEN TranscriptOf(i) ELSE Raised(i, Error("process", exc.kind))

\* lines 71-85: process() returns the transcript, or re-raises the exception
ProcessResult(i, exc) ==
    IF exc = NoError THEN TranscriptOf(i) ELSE Raised(i, exc)

\* a variant in which process() is suspended once more before it returns
PStateOfSuspended(result) == IF result.kind = "transcript" THEN "merging" ELSE "raised"

PStateOf(result) == IF result.kind = "transcript" THEN "returned" ELSE "raised"

\* a variant that looks at the waiters only
LockedIgnoringValue(value, queue) == queue # <<>>

\* asyncio.Semaphore.locked(), as used by acquire() in `async with semaphore`
Locked(value, queue) == value = 0 \/ queue # <<>>

\* the waiters not yet woken, as positions in the queue
Sleeping(queue, t) == {k \in 1..Len(queue) : t[queue[k]] = "waiting"}

\* a variant that wakes the newest waiter
LastSleeping(queue, t) ==
    CHOOSE k \in Sleeping(queue, t) : \A j \in Sleeping(queue, t) : k >= j

\* the oldest waiter not yet woken
FirstSleeping(queue, t) ==
    CHOOSE k \in Sleeping(queue, t) : \A j \in Sleeping(queue, t) : k <= j

\* asyncio.Semaphore._wake_up_next(): the oldest sleeping waiter takes a
\* permit and is scheduled
WakeNext(value, queue, t) ==
    IF Sleeping(queue, t) # {}
    THEN [value |-> value - 1,
          task |-> [t EXCEPT ![queue[FirstSleeping(queue, t)]] = "woken"]]
    ELSE [value |-> value, task |-> t]

\* the end of asyncio.Semaphore.acquire(): while a permit is free, wake the next
RECURSIVE WakeWhileFree(_, _, _)
WakeWhileFree(value, queue, t) ==
    IF value > 0 /\ Sleeping(queue, t) # {}
    THEN LET woke == WakeNext(value, queue, t)
         IN WakeWhileFree(woke.value, queue, woke.task)
    ELSE [value |-> value, task |-> t]

RemoveWaiter(queue, i) == SelectSeq(queue, LAMBDA w : w # i)

\* the event loop runs the callbacks of the woken futures in the order the
\* futures were resolved, which is the order of the queue: the woken waiter
\* that resumes next is the oldest one
IsNextToResume(queue, t, i) ==
    /\ t[i] = "woken"
    /\ \E k \in 1..Len(queue) :
          /\ queue[k] = i
          /\ \A j \in 1..(k - 1) : t[queue[j]] # "woken"

\* a variant of the inner gather that resolves on the first result
GatherFirstCompleted(t, d) == t = "done" \/ d = "done"

\* lines 101-104: asyncio.gather resolves with the results once both calls returned
GatherComplete(t, d) == t = "done" /\ d = "done"

\* a variant that goes on to diarize whether or not transcribe returned
SeqThenAlways(t) == "diarize"

\* lines 122-124: diarize is reached only when the awaited transcribe returned
SeqThen(t) == IF t = "done" THEN "diarize" ELSE "raise"

\* line 177 with lines 53-69 and 95-104, 122: entering process() under the
\* permit invokes transcribe and, in parallel mode, diarize
Enter(i, t) ==
    /\ task' = [t EXCEPT ![i] = "running"]
    /\ tcall' = [tcall EXCEPT ![i] = "running"]
    /\ dcall' = [dcall EXCEPT ![i] =
                    IF Branch(options) = "parallel" THEN "running" ELSE "none"]
    /\ pstate' = [pstate EXCEPT ![i] =
                    IF Branch(options) = "parallel" THEN "gather" ELSE "await_t"]
    /\ admitted' = Append(admitted, i)

\* a variant that gives the permit back only when process() returned
FinishKeepingPermitOnError(i, result) ==
    LET woke == IF result.kind = "error"
                THEN [value |-> sem, task |-> [task EXCEPT ![i] = "finished"]]
                ELSE WakeNext(sem + 1, waiters, [task EXCEPT ![i] = "finished"])
    IN /\ outcome' = [outcome EXCEPT ![i] = result]
       /\ pstate' = [pstate EXCEPT ![i] = PStateOf(result)]
       /\ overtook' = (overtook \/ \E j \in Inputs : j < i /\ task[j] # "finished")
       /\ sem' = woke.value
       /\ task' = woke.task
       /\ UNCHANGED waiters

\* lines 176-177 on exit: the task ends with `result`; `async with` releases
\* the permit on every exit path (release(): the value goes up by one and the
\* next waiter is woken); gather(return_exceptions=True) keeps the result
Finish(i, result) ==
    LET woke == WakeNext(sem + 1, waiters, [task EXCEPT ![i] = "finished"])
    IN /\ outcome' = [outcome EXCEPT ![i] = result]
       /\ pstate' = [pstate EXCEPT ![i] = PStateOf(result)]
       /\ overtook' = (overtook \/ \E j \in Inputs : j < i /\ task[j] # "finished")
       /\ sem' = woke.value
       /\ task' = woke.task
       /\ UNCHANGED waiters

Ended(i, which) == first' = [first EXCEPT ![i] = IF @ = "none" THEN which ELSE @]

\* lines 179-180: the tasks start in input order; one that finds the
\* semaphore free takes a permit and enters process()
TaskStartAcquire(i) ==
    /\ bstate = "gathering"
    /\ task[i] = "created"
    /\ \A j \in Inputs : j < i => task[j] # "created"
    /\ ~Locked(sem, waiters)
    /\ sem' = sem - 1
    /\ Enter(i, task)
    /\ UNCHANGED <<mvars, svars, avars, raisable, options, max_concurrent, bstate, gexc, merged, first,
                   outcome, waiters, overtook, results>>

\* line 176: a task that finds the semaphore locked queues up
TaskStartWait(i) ==
    /\ bstate = "gathering"
    /\ task[i] = "created"
    /\ \A j \in Inputs : j < i => task[j] # "created"
    /\ Locked(sem, waiters)
    /\ waiters' = Append(waiters, i)
    /\ task' = [task EXCEPT ![i] = "waiting"]
    /\ UNCHANGED <<mvars, svars, avars, raisable, admitted, options, max_concurrent, bstate, pstate, tcall, dcall, gexc,
                   merged, first, outcome, sem, overtook, results>>

\* lines 176-177: a woken waiter leaves the queue, passes on any free permit
\* and enters process()
TaskResume(i) ==
    /\ IsNextToResume(waiters, task, i)
    /\ LET queue == RemoveWaiter(waiters, i)
           woke == WakeWhileFree(sem, queue, task)
       IN /\ waiters' = queue
          /\ sem' = woke.value
          /\ Enter(i, woke.task)
    /\ UNCHANGED <<mvars, svars, avars, raisable, options, max_concurrent, bstate, gexc, merged, first,
                   outcome, overtook, results>>

\* ---- parallel mode, lines 95-112

\* a call of the pair ends; the gather resolves when both returned, or with
\* the first exception
ParCallEnds(i, which, how) ==
    LET t == IF which = "transcription" THEN how ELSE tcall[i]
        d == IF which = "diarization" THEN how ELSE dcall[i]
    IN /\ Branch(options) = "parallel"
       /\ tcall' = [tcall EXCEPT ![i] = t]
       /\ dcall' = [dcall EXCEPT ![i] = d]
       /\ Ended(i, which)
       /\ IF pstate[i] = "gather" /\ Failed(how)
          THEN /\ gexc' = [gexc EXCEPT ![i] = Error(which, how)]
               /\ pstate' = [pstate EXCEPT ![i] = "gather_done"]
          ELSE IF pstate[i] = "gather" /\ GatherComplete(t, d)
               THEN /\ pstate' = [pstate EXCEPT ![i] = "gather_done"]
                    /\ UNCHANGED gexc
               ELSE UNCHANGED <<pstate, gexc>>
       /\ UNCHANGED <<mvars, svars, avars, raisable, admitted, options, max_concurrent, bstate, task, merged, outcome,
                      sem, waiters, overtook, results>>

ParTranscribeReturns(i) ==
    tcall[i] = "running" /\ ParCallEnds(i, "transcription", "done")

ParTranscribeRaises(i) ==
    tcall[i] = "running" /\ \E e \in raisable : ParCallEnds(i, "transcription", e)

ParDiarizeReturns(i) ==
    dcall[i] = "running" /\ ParCallEnds(i, "diarization", "done")

ParDiarizeRaises(i) ==
    dcall[i] = "running" /\ \E e \in raisable : ParCallEnds(i, "diarization", e)

\* lines 101-112, 71-85: process() resumes from the gather: it merges and
\* returns, or the exception propagates
ParResume(i) ==
    /\ pstate[i] = "gather_done"
    /\ merged' = [merged EXCEPT ![i] = (gexc[i] = NoError)]
    /\ Finish(i, ProcessResult(i, gexc[i]))
    /\ UNCHANGED <<mvars, svars, avars, raisable, admitted, options, max_concurrent, bstate, tcall, dcall, gexc, first,
                   results>>

\* ---- sequential mode, lines 122-135

SeqTranscribeEnds(i, how) ==
    /\ Branch(options) = "sequential"
    /\ tcall' = [tcall EXCEPT ![i] = how]
    /\ Ended(i, "transcription")
    /\ IF SeqThen(how) = "diarize"
       THEN /\ dcall' = [dcall EXCEPT ![i] = "running"]
            /\ pstate' = [pstate EXCEPT ![i] = "await_d"]
            /\ UNCHANGED <<task, outcome, sem, waiters, overtook>>
       ELSE /\ Finish(i, ProcessResult(i, Error("transcription", how)))
            /\ UNCHANGED dcall
    /\ UNCHANGED <<mvars, svars, avars, raisable, admitted, options, max_concurrent, bstate, gexc, merged, results>>

SeqTranscribeReturns(i) ==
    tcall[i] = "running" /\ SeqTranscribeEnds(i, "done")

SeqTranscribeRaises(i) ==
    tcall[i] = "running" /\ \E e \in raisable : SeqTranscribeEnds(i, e)

SeqDiarizeEnds(i, how) ==
    /\ Branch(options) = "sequential"
    /\ dcall' = [dcall EXCEPT ![i] = how]
    /\ Ended(i, "diarization")
    /\ merged' = [merged EXCEPT ![i] = (how = "done")]
    /\ Finish(i, ProcessResult(i, IF how = "done" THEN NoError
                                  ELSE Error("diarization", how)))
    /\ UNCHANGED <<mvars, svars, avars, raisable, admitted, options, max_concurrent, bstate, tcall, gexc, results>>

SeqDiarizeReturns(i) ==
    dcall[i] = "running" /\ SeqDiarizeEnds(i, "done")

SeqDiarizeRaises(i) ==
    dcall[i] = "running" /\ \E e \in raisable : SeqDiarizeEnds(i, e)

\* ---- transcription only, lines 65-69

OnlyTranscribeEnds(i, how) ==
    /\ Branch(options) = "transcribe"
    /\ tcall' = [tcall EXCEPT ![i] = how]
    /\ Ended(i, "transcription")
    /\ Finish(i, ProcessResult(i, IF how = "done" THEN NoError
                                  ELSE Error("transcription", how)))
    /\ UNCHANGED <<mvars, svars, avars, raisable, admitted, options, max_concurrent, bstate, dcall, gexc, merged, results>>

OnlyTranscribeReturns(i) ==
    tcall[i] = "running" /\ OnlyTranscribeEnds(i, "done")

OnlyTranscribeRaises(i) ==
    tcall[i] = "running" /\ \E e \in raisable : OnlyTranscribeEnds(i, e)

\* ---- process_batch, lines 180-195

\* line 180: gather returns one result per task, in the order of the tasks
GatherResults == [i \in Inputs |-> outcome[i]]

\* line 184: isinstance(result, Exception)
IsException(result) == result.kind = "error" /\ result.error.kind = "Exception"

\* a variant that puts each result in front of the ones collected before
RECURSIVE CollectLoopPrepending(_, _, _)
CollectLoopPrepending(transcripts, i, acc) ==
    IF i > Len(transcripts) THEN acc
    ELSE CollectLoopPrepending(transcripts, i + 1,
                     IF IsException(transcripts[i]) THEN acc
                     ELSE <<transcripts[i]>> \o acc)

\* a variant that stops collecting at the first exception
RECURSIVE CollectLoopStoppingAtError(_, _, _)
CollectLoopStoppingAtError(transcripts, i, acc) ==
    IF i > Len(transcripts) THEN acc
    ELSE IF IsException(transcripts[i]) THEN acc
         ELSE CollectLoopStoppingAtError(transcripts, i + 1, Append(acc, transcripts[i]))

\* lines 182-189
RECURSIVE CollectLoop(_, _, _)
CollectLoop(transcripts, i, acc) ==
    IF i > Len(transcripts) THEN acc
    ELSE CollectLoop(transcripts, i + 1,
                     IF IsException(transcripts[i]) THEN acc
                     ELSE Append(acc, transcripts[i]))

\* examples/03_batch_processing.py, lines 76-80: the loop over the returned
\* transcripts writes audio_files[i].name above the text of transcripts[i]
AudioFileOf(p) == p

\* lines 180-195: every task has ended; the results are collected and returned
BatchReturn ==
    /\ bstate = "gathering"
    /\ \A i \in Inputs : task[i] = "finished"
    /\ results' = CollectLoop(GatherResults, 1, <<>>)
    /\ bstate' = "returned"
    /\ UNCHANGED <<mvars, svars, avars, raisable, admitted, options, max_concurrent, task, pstate, tcall, dcall, gexc,
                   merged, first, outcome, sem, waiters, overtook>>

\* a batch that has returned
BatchIdle ==
    /\ max_concurrent = 1
    /\ bstate = "returned"
    /\ task = [i \in Inputs |-> "finished"]
    /\ pstate = [i \in Inputs |-> "returned"]
    /\ tcall = [i \in Inputs |-> "done"]
    /\ dcall = [i \in Inputs |-> IF Branch(options) = "transcribe" THEN "none" ELSE "done"]
    /\ gexc = [i \in Inputs |-> NoError]
    /\ merged = [i \in Inputs |-> Branch(options) # "transcribe"]
    /\ first = [i \in Inputs |-> "transcription"]
    /\ outcome = [i \in Inputs |-> TranscriptOf(i)]
    /\ sem = 1
    /\ waiters = <<>>
    /\ overtook = FALSE
    /\ admitted = [i \in Inputs |-> i]
    /\ raisable = {"Exception"}
    /\ results = [i \in Inputs |-> TranscriptOf(i)]

\* the scope entered, as around process_batch in examples/03_batch_processing.py
ScopeIdle ==
    /\ scope = "inside"
    /\ t_loaded = TRUE
    /\ d_loaded = options.diarization_engine
    /\ body = "none"
    /\ observed = "none"
    /\ unloads = <<>>
    /\ rounds = 1

\* the control path at rest, for the data-path specification
ControlIdle ==
    /\ options = [enable_diarization |-> TRUE, parallel |-> TRUE,
                  diarization_engine |-> TRUE]
    /\ BatchIdle
    /\ ScopeIdle

\* the data path at rest, for the control-path specification
DataIdle ==
    /\ transcribed = Transcribe(<<>>)
    /\ diarized = Diarize(<<>>)
    /\ transcript = SetProcessingTime(Transcribe(<<>>))
    /\ mstate = "returned"

\* lines 165-180: process_batch has built the semaphore and the tasks
BatchStart ==
    /\ DataIdle
    /\ ApiIdle
    /\ options \in Options
    /\ ScopeIdle
    /\ max_concurrent \in 1..MaxConcurrent
    /\ sem = max_concurrent
    /\ waiters = <<>>
    /\ bstate = "gathering"
    /\ task = [i \in Inputs |-> "created"]
    /\ pstate = [i \in Inputs |-> "idle"]
    /\ tcall = [i \in Inputs |-> "none"]
    /\ dcall = [i \in Inputs |-> "none"]
    /\ gexc = [i \in Inputs |-> NoError]
    /\ merged = [i \in Inputs |-> FALSE]
    /\ first = [i \in Inputs |-> "none"]
    /\ outcome = [i \in Inputs |-> NoOutcome]
    /\ overtook = FALSE
    /\ admitted = <<>>
    /\ results = <<>>

\* the engines fail with exceptions derived from Exception
Init == BatchStart /\ raisable = {"Exception"}

\* the engines' calls may also end cancelled
InitCancel == BatchStart /\ raisable = ErrorKinds

Next ==
    \/ \E i \in Inputs : TaskStartAcquire(i)
    \/ \E i \in Inputs : TaskStartWait(i)
    \/ \E i \in Inputs : TaskResume(i)
    \/ \E i \in Inputs : ParTranscribeReturns(i)
    \/ \E i \in Inputs : ParTranscribeRaises(i)
    \/ \E i \in Inputs : ParDiarizeReturns(i)
    \/ \E i \in Inputs : ParDiarizeRaises(i)
    \/ \E i \in Inputs : ParResume(i)
    \/ \E i \in Inputs : SeqTranscribeReturns(i)
    \/ \E i \in Inputs : SeqTranscribeRaises(i)
    \/ \E i \in Inputs : SeqDiarizeReturns(i)
    \/ \E i \in Inputs : SeqDiarizeRaises(i)
    \/ \E i \in Inputs : OnlyTranscribeReturns(i)
    \/ \E i \in Inputs : OnlyTranscribeRaises(i)
    \/ BatchReturn

Spec == Init /\ [][Next]_vars

\* process_batch on a running event loop, with capability calls that end:
\* a callback that is ready is run, and a call in progress returns or raises
SpecLive == Init /\ [][Next]_vars /\ WF_vars(Next)

\* process_batch over engines whose calls may raise asyncio.CancelledError
SpecCancel == InitCancel /\ [][Next]_vars

-----------------------------------------------------------------------------
(* The resource scope: `async with pipeline:` around a body that calls     *)
(* process() or process_batch() (__aenter__, __aexit__, and the engines'   *)
(* load_model / unload_model).  `async with` calls __aexit__ when the body *)
(* ends, normally or with an exception, and not when __aenter__ raised; an *)
(* exception raised by __aexit__ is what the statement ends with.          *)

\* Bound of the scope: how many times the scope is entered
MaxRounds == 3

\* load_model(): the engine holds its model (a no-op when it already does)
LoadModel(loaded) == TRUE

\* a variant of unload_model() that leaves the model in place
UnloadModelKeeping(loaded) == loaded

\* unload_model(): the model is dropped
UnloadModel(loaded) == FALSE

\* what the `async with` statement ends with: the exception __aexit__ raised,
\* or else how the body ended (__aexit__ returns None, which is falsy)
StatementOutcome(bodyOutcome, exitRaised) ==
    IF exitRaised THEN "unload_error" ELSE bodyOutcome

\* line 198: __aenter__ awaits the load of the transcription engine
EnterLoadTranscription(raises) ==
    /\ rounds < MaxRounds
    /\ rounds' = rounds + 1
    /\ body' = "none"
    /\ unloads' = <<>>
    /\ IF raises
       THEN /\ ~t_loaded
            /\ scope' = "outside"
            /\ observed' = "load_error"
            /\ UNCHANGED t_loaded
       ELSE /\ t_loaded' = LoadModel(t_loaded)
            /\ scope' = IF options.diarization_engine THEN "enter_d" ELSE "inside"
            /\ observed' = "none"
    /\ UNCHANGED <<mvars, cvars, avars, d_loaded>>

EnterLoadTranscriptionReturns ==
    scope = "outside" /\ EnterLoadTranscription(FALSE)

EnterLoadTranscriptionRaises ==
    scope = "outside" /\ EnterLoadTranscription(TRUE)

\* lines 199-201: then the load of the diarization engine, when there is one
EnterLoadDiarization(raises) ==
    /\ IF raises
       THEN /\ ~d_loaded
            /\ scope' = "outside"
            /\ observed' = "load_error"
            /\ UNCHANGED d_loaded
       ELSE /\ d_loaded' = LoadModel(d_loaded)
            /\ scope' = "inside"
            /\ UNCHANGED observed
    /\ UNCHANGED <<mvars, cvars, avars, t_loaded, body, unloads, rounds>>

EnterLoadDiarizationReturns ==
    scope = "enter_d" /\ EnterLoadDiarization(FALSE)

EnterLoadDiarizationRaises ==
    scope = "enter_d" /\ EnterLoadDiarization(TRUE)

\* how a body may end: with the Transcript process() returned, with the
\* list process_batch() returned, or with the exception process() raised
BodyOutcomes == {"transcript", "transcripts", "E"}

\* the body of the scope ends; the engines are loaded, so that the calls of
\* the body load nothing
BodyEnds(how) ==
    /\ body' = how
    /\ scope' = "exit_t"
    /\ UNCHANGED <<mvars, cvars, avars, t_loaded, d_loaded, observed, unloads, rounds>>

BodyProcessReturns == scope = "inside" /\ BodyEnds("transcript")

BodyProcessRaises == scope = "inside" /\ BodyEnds("E")

BodyProcessBatchReturns == scope = "inside" /\ BodyEnds("transcripts")

\* line 204: __aexit__ awaits the unload of the transcription engine; when
\* it raises (having dropped the model or not), __aexit__ ends there
ExitUnloadTranscription(raises, dropped) ==
    /\ unloads' = Append(unloads, "transcription")
    /\ t_loaded' = IF dropped THEN UnloadModel(t_loaded) ELSE t_loaded
    /\ IF raises \/ ~options.diarization_engine
       THEN /\ scope' = "outside"
            /\ observed' = StatementOutcome(body, raises)
       ELSE /\ scope' = "exit_d"
            /\ UNCHANGED observed
    /\ UNCHANGED <<mvars, cvars, avars, d_loaded, body, rounds>>

ExitUnloadTranscriptionReturns ==
    scope = "exit_t" /\ ExitUnloadTranscription(FALSE, TRUE)

ExitUnloadTranscriptionRaises ==
    scope = "exit_t" /\ \E dropped \in BOOLEAN : ExitUnloadTranscription(TRUE, dropped)

\* lines 205-206: then the unload of the diarization engine
ExitUnloadDiarization(raises, dropped) ==
    /\ unloads' = Append(unloads, "diarization")
    /\ d_loaded' = IF dropped THEN UnloadModel(d_loaded) ELSE d_loaded
    /\ scope' = "outside"
    /\ observed' = StatementOutcome(body, raises)
    /\ UNCHANGED <<mvars, cvars, avars, t_loaded, body, rounds>>

ExitUnloadDiarizationReturns ==
    scope = "exit_d" /\ ExitUnloadDiarization(FALSE, TRUE)

ExitUnloadDiarizationRaises ==
    scope = "exit_d" /\ \E dropped \in BOOLEAN : ExitUnloadDiarization(TRUE, dropped)

\* a pipeline just constructed: no engine loaded, the scope not entered
InitScope ==
    /\ DataIdle
    /\ ApiIdle
    /\ options \in Options
    /\ BatchIdle
    /\ scope = "outside"
    /\ t_loaded = FALSE
    /\ d_loaded = FALSE
    /\ body = "none"
    /\ observed = "none"
    /\ unloads = <<>>
    /\ rounds = 0

NextScope ==
    \/ EnterLoadTranscriptionReturns
    \/ EnterLoadTranscriptionRaises
    \/ EnterLoadDiarizationReturns
    \/ EnterLoadDiarizationRaises
    \/ BodyProcessReturns
    \/ BodyProcessRaises
    \/ BodyProcessBatchReturns
    \/ ExitUnloadTranscriptionReturns
    \/ ExitUnloadTranscriptionRaises
    \/ ExitUnloadDiarizationReturns
    \/ ExitUnloadDiarizationRaises

SpecScope == InitScope /\ [][NextScope]_vars

-----------------------------------------------------------------------------
(* SpecScopedBatch: process_batch as the body of the scope, as in          *)
(* examples/03_batch_processing.py: the scope is entered, the batch runs,  *)
(* the body ends when process_batch returned, and __aexit__ unloads.       *)

\* examples/03_batch_processing.py, lines 58-67: the body is the awaited
\* process_batch call
BatchBodyEnds == bstate = "returned" /\ BodyProcessBatchReturns

NextScopedBatch ==
    \/ Next
    \/ BatchBodyEnds
    \/ ExitUnloadTranscriptionReturns
    \/ ExitUnloadTranscriptionRaises
    \/ ExitUnloadDiarizationReturns
    \/ ExitUnloadDiarizationRaises

SpecScopedBatch == Init /\ [][NextScopedBatch]_vars

-----------------------------------------------------------------------------
(* SpecTask: the task lifecycle of the API service.  POST /process         *)
(* (apps/api/routers/transcription.py) creates the task's row and          *)
(* schedules ProcessingService.process_audio (apps/api/services.py), which *)
(* writes the task's status before each stage of its work.  The runs of    *)
(* different tasks are interleaved (each has a thread or a worker of its   *)
(* own); a run is a sequence of steps, one per status written.             *)

\* database.create_task: the row inserted
CreateTask == [status |-> "pending", progress |-> 0]

\* database.update_task: status and progress are overwritten
UpdateTask(row, status, progress) ==
    [row EXCEPT !.status = status, !.progress = progress]

\* services.py, lines 105, 111, 120, 124, 139, 168: the statuses
\* process_audio writes, in the order of its code
Stages ==
    <<[status |-> "processing", progress |-> 10],
      [status |-> "transcribing", progress |-> 20],
      [status |-> "post-processing", progress |-> 50],
      [status |-> "analyzing", progress |-> 60],
      [status |-> "finalizing", progress |-> 90],
      [status |-> "completed", progress |-> 100]>>

\* process_audio has returned
RunEnded == Len(Stages) + 1

\* a variant of send_task_update without its try/except around the request
SendTaskUpdateUnguarded(postFailed) == postFailed

\* notifications.py, lines 36-40: an exception of requests.post or
\* raise_for_status is caught and logged; send_task_update does not raise
SendTaskUpdateRaises(postFailed) == FALSE

\* how the request of send_task_update may end: it is made only when
\* notifications are enabled (line 24), and then it may fail
PostFailures == IF enabled THEN BOOLEAN ELSE {FALSE}

\* notifications.py, lines 23-40: the request posted for an event, if any
SendTaskUpdate(reqs, event, postFailed) ==
    IF enabled THEN Append(reqs, [event |-> event, delivered |-> ~postFailed])
    ELSE reqs

\* routers/transcription.py, lines 36-54: the row is created with status
\* pending and progress 0, and process_audio is scheduled
ProcessRequest(t) ==
    /\ at[t] = Absent
    /\ rows' = [rows EXCEPT ![t] = CreateTask]
    /\ updates' = [updates EXCEPT ![t] = <<CreateTask>>]
    /\ at' = [at EXCEPT ![t] = 1]
    /\ UNCHANGED <<mvars, cvars, svars, enabled, notifications, requests>>

\* services.py, lines 104-139: the code up to the next update_task call ran
\* without an exception, and the status of that stage is written
ProcessAudioAdvances(t) ==
    /\ at[t] \in 1..(Len(Stages) - 1)
    /\ LET stage == Stages[at[t]]
           row == UpdateTask(rows[t], stage.status, stage.progress)
       IN /\ rows' = [rows EXCEPT ![t] = row]
          /\ updates' = [updates EXCEPT ![t] = Append(@, row)]
    /\ at' = [at EXCEPT ![t] = @ + 1]
    /\ UNCHANGED <<mvars, cvars, svars, enabled, notifications, requests>>

\* services.py, lines 141-169: the results are saved, completed is written
\* and the notification is sent, all inside the try block: an exception of
\* send_task_update would be handled as one of the run (lines 171-177)
ProcessAudioCompletes(t) ==
    /\ at[t] = Len(Stages)
    /\ \E postFailed \in PostFailures, handlerPostFailed \in PostFailures :
          LET stage == Stages[at[t]]
              completed == UpdateTask(rows[t], stage.status, stage.progress)
              failed == UpdateTask(completed, "failed", 0)
              sent == SendTaskUpdate(requests[t], "completed", postFailed)
          IN IF SendTaskUpdateRaises(postFailed)
             THEN /\ rows' = [rows EXCEPT ![t] = failed]
                  /\ updates' = [updates EXCEPT ![t] = @ \o <<completed, failed>>]
                  /\ notifications' = [notifications EXCEPT ![t] = @ \o <<"completed", "failed">>]
                  /\ requests' = [requests EXCEPT ![t] =
                                     SendTaskUpdate(sent, "failed", handlerPostFailed)]
             ELSE /\ rows' = [rows EXCEPT ![t] = completed]
                  /\ updates' = [updates EXCEPT ![t] = Append(@, completed)]
                  /\ notifications' = [notifications EXCEPT ![t] = Append(@, "completed")]
                  /\ requests' = [requests EXCEPT ![t] = sent]
    /\ at' = [at EXCEPT ![t] = RunEnded]
    /\ UNCHANGED <<mvars, cvars, svars, enabled>>

\* services.py, lines 171-180: an Exception raised by the code up to and
\* including the next update_task call is caught: failed is written with
\* progress 0, the failed notification is sent, and process_audio returns
ProcessAudioRaises(t) ==
    /\ at[t] \in 1..Len(Stages)
    /\ \E postFailed \in PostFailures :
          LET failed == UpdateTask(rows[t], "failed", 0)
          IN /\ rows' = [rows EXCEPT ![t] = failed]
             /\ updates' = [updates EXCEPT ![t] = Append(@, failed)]
             /\ notifications' = [notifications EXCEPT ![t] = Append(@, "failed")]
             /\ requests' = [requests EXCEPT ![t] =
                                SendTaskUpdate(@, "failed", postFailed)]
    /\ at' = [at EXCEPT ![t] = RunEnded]
    /\ UNCHANGED <<mvars, cvars, svars, enabled>>

\* the service started: no task yet; notifications enabled or not
InitTask ==
    /\ DataIdle
    /\ ControlIdle
    /\ enabled \in BOOLEAN
    /\ rows = [t \in TaskIds |-> NoRow]
    /\ updates = [t \in TaskIds |-> <<>>]
    /\ at = [t \in TaskIds |-> Absent]
    /\ notifications = [t \in TaskIds |-> <<>>]
    /\ requests = [t \in TaskIds |-> <<>>]

NextTask ==
    \/ \E t \in TaskIds : ProcessRequest(t)
    \/ \E t \in TaskIds : ProcessAudioAdvances(t)
    \/ \E t \in TaskIds : ProcessAudioCompletes(t)
    \/ \E t \in TaskIds : ProcessAudioRaises(t)

SpecTask == InitTask /\ [][NextTask]_vars

-----------------------------------------------------------------------------
(* SpecMerge *)

\* the scenario of the specification, section 8
ScenarioRaw == <<[start |-> 0, end |-> 2], [start |-> 2, end |-> 5]>>
ScenarioTracks == <<[start |-> 0, end |-> 3, label |-> StrLabel("S1")],
                    [start |-> 3, end |-> 5, label |-> StrLabel("S2")]>>

MergeInputs ==
    (SeqsUpTo(WhisperSpans, MaxSegs) \X SeqsUpTo(Tracks, MaxTurns))
        \cup {<<ScenarioRaw, ScenarioTracks>>}

\* process() has its capability results in hand: in parallel and sequential
\* mode those of transcribe() and diarize(), otherwise that of transcribe()
\* alone (diarize() was not called: no speakers, no timestamps)
InitMerge ==
    /\ mstate = "ready"
    /\ \/ /\ options \in {o \in Options : Branch(o) # "transcribe"}
          /\ \E inp \in MergeInputs :
                /\ transcribed = Transcribe(inp[1])
                /\ diarized = Diarize(inp[2])
                /\ transcript = Transcribe(inp[1])
       \/ /\ options \in {o \in Options : Branch(o) = "transcribe"}
          /\ \E raw \in SeqsUpTo(WhisperSpans, MaxSegs) :
                /\ transcribed = Transcribe(raw)
                /\ diarized = Diarize(<<>>)
                /\ transcript = Transcribe(raw)
    /\ BatchIdle
    /\ ScopeIdle
    /\ ApiIdle

\* lines 106-110 / 129-133
MergeStep ==
    /\ mstate = "ready"
    /\ Branch(options) # "transcribe"
    /\ transcript' = MergeTranscriptWithDiarization(
                         transcript, diarized.speakers, diarized.timestamps)
    /\ mstate' = "merged"
    /\ UNCHANGED <<transcribed, diarized>>
    /\ UNCHANGED <<cvars, svars, avars>>

\* lines 71-81: process() has the Transcript of its branch (merged in
\* parallel and sequential mode, as transcribed otherwise) and returns it
ProcessReturn ==
    /\ mstate = IF Branch(options) = "transcribe" THEN "ready" ELSE "merged"
    /\ transcript' = SetProcessingTime(transcript)
    /\ mstate' = "returned"
    /\ UNCHANGED <<transcribed, diarized>>
    /\ UNCHANGED <<cvars, svars, avars>>

NextMerge == MergeStep \/ ProcessReturn

SpecMerge == InitMerge /\ [][NextMerge]_vars

-----------------------------------------------------------------------------
(* SpecMergeAny: _merge_transcript_with_diarization called with a          *)
(* Transcript whose segments may already carry a speaker_id (the field is  *)
(* Optional[str] and a TranscriptionEngine other than FasterWhisperEngine  *)
(* may fill it).                                                           *)

\* models/transcript.py, Segment.speaker_id: the values a segment may carry
\* on entry
SpeakerIdsOnEntry == {None, Some("PRESET")}

\* the tracks of an Annotation whose labels are strings
StrTracks == {tr \in Tracks : tr.label.isStr}

\* the Transcript of an engine that fills speaker_id
WithSpeakerIds(t, ids) ==
    [t EXCEPT !.segments = [k \in 1..Len(t.segments) |->
                              [t.segments[k] EXCEPT !.speaker_id = ids[k]]]]

InitMergeAny ==
    /\ mstate = "ready"
    /\ options = [enable_diarization |-> TRUE, parallel |-> TRUE,
                  diarization_engine |-> TRUE]
    /\ \E raw \in SeqsUpTo(WhisperSpans, MaxSegs) :
       \E ids \in [1..Len(raw) -> SpeakerIdsOnEntry] :
       \E tracks \in SeqsUpTo(StrTracks, MaxTurns) :
            /\ transcribed = WithSpeakerIds(Transcribe(raw), ids)
            /\ diarized = Diarize(tracks)
            /\ transcript = WithSpeakerIds(Transcribe(raw), ids)
    /\ BatchIdle
    /\ ScopeIdle
    /\ ApiIdle

SpecMergeAny == InitMergeAny /\ [][MergeStep]_vars

-----------------------------------------------------------------------------
(* Properties of the merge step (SpecMerge) *)

Merged == mstate = "merged"
SegIdx == 1..Len(transcribed.segments)
TurnIdx == 1..Len(diarized.timestamps)
OverlapOf(i, k) == Overlap(transcribed.segments[i], diarized.timestamps[k])

\* the greatest overlap of segment i with any turn (0 when there is no turn)
GreatestOverlap(i) ==
    IF TurnIdx = {} THEN 0
    ELSE LET k == CHOOSE k \in TurnIdx : \A j \in TurnIdx : OverlapOf(i, j) <= OverlapOf(i, k)
         IN OverlapOf(i, k)

\* the first turn, in diarization order, that has the greatest overlap
FirstGreatest(i) ==
    CHOOSE k \in TurnIdx :
        /\ OverlapOf(i, k) = GreatestOverlap(i)
        /\ \A j \in TurnIdx : j < k => OverlapOf(i, j) < GreatestOverlap(i)

Contains(k, i) ==
    /\ diarized.timestamps[k].start <= transcribed.segments[i].start
    /\ transcribed.segments[i].end <= diarized.timestamps[k].end

SpeakerIdsOf(segments) == [i \in 1..Len(segments) |-> segments[i].speaker_id]

\* C1: the merge step returns the segments transcription produced, as many
\* and in the same order (same id, start and end at every position).
C1_MergePreservesSegments ==
    Merged =>
        /\ Len(transcript.segments) = Len(transcribed.segments)
        /\ \A i \in SegIdx :
              /\ transcript.segments[i].id = transcribed.segments[i].id
              /\ transcript.segments[i].start = transcribed.segments[i].start
              /\ transcript.segments[i].end = transcribed.segments[i].end

\* C1 witness: two segments merged, the first left without a speaker and the
\* second given one.
C1_Witness ==
    /\ Merged
    /\ Len(transcribed.segments) = 2
    /\ Len(transcript.segments) = 2
    /\ transcript.segments[1].speaker_id = None
    /\ transcript.segments[2].speaker_id # None

C3_SpeakerIdsAreKnownSpeakers ==
    Merged =>
        \A i \in 1..Len(transcript.segments) :
            \/ transcript.segments[i].speaker_id = None
            \/ \E s \in 1..Len(transcript.speakers) :
                  transcript.segments[i].speaker_id = Some(transcript.speakers[s].id)

\* C3 witness: two segments attributed to two different speakers, both in the
\* speakers list, one of them built from an integer label.
C3_Witness ==
    /\ Merged
    /\ Len(transcript.segments) = 2
    /\ Len(transcript.speakers) = 2
    /\ transcript.segments[1].speaker_id = Some("SPEAKER_01")
    /\ transcript.segments[2].speaker_id = Some("SPEAKER_00")
    /\ transcript.speakers[1].id = "SPEAKER_00"

\* the segment lies inside turn k and inside no other turn
InsideExactlyOne(i, k) ==
    /\ Contains(k, i)
    /\ \A j \in TurnIdx : Contains(j, i) => j = k

\* C4 as claimed: a segment inside exactly one turn, empty segments included,
\* gets that turn's speaker id; a segment no turn overlaps gets null.
C4_ContainedSegmentGetsTurnSpeaker ==
    Merged =>
        \A i \in SegIdx :
            /\ \A k \in TurnIdx :
                  InsideExactlyOne(i, k) =>
                      transcript.segments[i].speaker_id =
                          Some(diarized.timestamps[k].speaker_id)
            /\ (\A k \in TurnIdx : OverlapOf(i, k) = 0) =>
                  transcript.segments[i].speaker_id = None

\* C4 amended: a segment of positive duration inside exactly one turn gets
\* that turn's speaker id when the id is not the empty string; a segment of
\* zero duration, and a segment no turn overlaps, gets null.
C4_ContainedNonEmptySegmentGetsTurnSpeaker ==
    Merged =>
        \A i \in SegIdx :
            /\ \A k \in TurnIdx :
                  (/\ InsideExactlyOne(i, k)
                   /\ transcribed.segments[i].start < transcribed.segments[i].end
                   /\ diarized.timestamps[k].speaker_id # "") =>
                      transcript.segments[i].speaker_id =
                          Some(diarized.timestamps[k].speaker_id)
            /\ transcribed.segments[i].start = transcribed.segments[i].end =>
                  transcript.segments[i].speaker_id = None
            /\ (\A k \in TurnIdx : OverlapOf(i, k) = 0) =>
                  transcript.segments[i].speaker_id = None

\* C4 witness: a segment of positive duration inside exactly one of two
\* turns, the other turn coming first and touching it, has the id of the
\* containing turn; an empty segment inside a turn stays null.
C4_Witness ==
    /\ Merged
    /\ Len(transcribed.segments) = 2
    /\ \E k \in TurnIdx :
          /\ k = 2
          /\ InsideExactlyOne(1, k)
          /\ transcribed.segments[1].start < transcribed.segments[1].end
          /\ diarized.timestamps[k].speaker_id # ""
          /\ diarized.timestamps[1].speaker_id # diarized.timestamps[k].speaker_id
          /\ transcript.segments[1].speaker_id = Some(diarized.timestamps[k].speaker_id)
    /\ transcribed.segments[2].start = transcribed.segments[2].end
    /\ \E k \in TurnIdx : Contains(k, 2)
    /\ transcript.segments[2].speaker_id = None

-----------------------------------------------------------------------------
(* Properties of process() and process_batch() (Spec) *)

Running == {i \in Inputs : task[i] = "running"}

\* C5: in parallel mode the merge step runs only when both the transcribe
\* call and the diarize call have returned.
C5_MergeAfterBothCalls ==
    Branch(options) = "parallel" =>
        \A i \in Inputs :
            (merged[i] \/ pstate[i] = "returned") =>
                tcall[i] = "done" /\ dcall[i] = "done"

\* C5 witness: a merge ran after diarize ended first, and another after
\* transcribe ended first.
C5_Witness ==
    /\ Branch(options) = "parallel"
    /\ \E i, j \in Inputs :
          /\ merged[i] /\ first[i] = "diarization"
          /\ merged[j] /\ first[j] = "transcription"

\* C6: in parallel mode a process() call of which a capability call failed
\* ends with the error of a failed call and with no Transcript, and a
\* Transcript is returned only when both calls returned.
C6_ParallelAllOrNothing ==
    Branch(options) = "parallel" =>
        \A i \in Inputs :
            /\ outcome[i].kind = "transcript" =>
                  tcall[i] = "done" /\ dcall[i] = "done"
            /\ (task[i] = "finished" /\ (Failed(tcall[i]) \/ Failed(dcall[i]))) =>
                  /\ pstate[i] = "raised"
                  /\ outcome[i].kind = "error"
                  /\ \/ outcome[i].error = Error("transcription", tcall[i])
                     \/ outcome[i].error = Error("diarization", dcall[i])

\* C6 witness: transcribe had returned, then diarize failed, and process()
\* raised the error of diarize.
C6_Witness ==
    /\ Branch(options) = "parallel"
    /\ \E i \in Inputs :
          /\ first[i] = "transcription"
          /\ tcall[i] = "done"
          /\ Failed(dcall[i])
          /\ pstate[i] = "raised"
          /\ outcome[i] = Raised(i, Error("diarization", dcall[i]))

\* C7 as claimed: in parallel mode, once process() has raised the error of
\* one call, the sibling call is no longer running.
C7_SiblingCancelledOnFailure ==
    Branch(options) = "parallel" =>
        \A i \in Inputs :
            pstate[i] = "raised" =>
                tcall[i] # "running" /\ dcall[i] # "running"

\* C8: in sequential mode diarize is invoked only after transcribe returned;
\* a failed transcribe leaves diarize uninvoked and fails process(); a failed
\* diarize fails process(); a Transcript is returned only after both returned.
C8_SequentialOrder ==
    Branch(options) = "sequential" =>
        \A i \in Inputs :
            /\ dcall[i] # "none" => tcall[i] = "done"
            /\ Failed(tcall[i]) =>
                  /\ dcall[i] = "none"
                  /\ outcome[i] = Raised(i, Error("transcription", tcall[i]))
            /\ Failed(dcall[i]) =>
                  outcome[i] = Raised(i, Error("diarization", dcall[i]))
            /\ outcome[i].kind = "transcript" =>
                  tcall[i] = "done" /\ dcall[i] = "done" /\ merged[i]

\* C8 witness: one call failed in transcribe with diarize never invoked,
\* another failed in diarize, a third returned its Transcript.
C8_Witness ==
    /\ Branch(options) = "sequential"
    /\ \E i, j, k \in Inputs :
          /\ Failed(tcall[i]) /\ dcall[i] = "none" /\ pstate[i] = "raised"
          /\ tcall[j] = "done" /\ Failed(dcall[j]) /\ pstate[j] = "raised"
          /\ outcome[k] = TranscriptOf(k)

\* C9: at every moment at most max_concurrent process() calls have started
\* and not finished.
C9_AtMostMaxConcurrent ==
    Cardinality(Running) <= max_concurrent

\* C9 witness: the ceiling is reached while an input waits for a permit and
\* an earlier input has failed.
C9_Witness ==
    /\ bstate = "gathering"
    /\ Cardinality(Running) = max_concurrent
    /\ \E i \in Inputs : task[i] = "waiting"
    /\ \E i \in Inputs : outcome[i].kind = "error"

\* C10: when process_batch returns, the transcripts of any two inputs i < j
\* that both succeeded are both in the result, that of i before that of j.
C10_ResultsInInputOrder ==
    bstate = "returned" =>
        \A i, j \in Inputs :
            (i < j /\ outcome[i].kind = "transcript" /\ outcome[j].kind = "transcript") =>
                \E p, q \in 1..Len(results) :
                    /\ p < q
                    /\ results[p] = TranscriptOf(i)
                    /\ results[q] = TranscriptOf(j)

\* C10 witness: every input succeeded, the task of some input ended before
\* that of an earlier input, and the result lists the inputs in input order.
C10_Witness ==
    /\ bstate = "returned"
    /\ overtook
    /\ results = [i \in Inputs |-> TranscriptOf(i)]

\* the transcripts of the inputs whose process() call returned, in input order
TranscriptsOfSucceeded ==
    SelectSeq([i \in Inputs |-> outcome[i]], LAMBDA r : r.kind = "transcript")

\* C11 as claimed: however the process() calls of some inputs failed
\* (cancellation included), process_batch returns, and what it returns is
\* exactly the transcripts of the inputs that did not fail, with no error
\* object in it.
C11_BatchReturnsOnlyTranscripts ==
    bstate = "returned" =>
        /\ results = TranscriptsOfSucceeded
        /\ \A p \in 1..Len(results) : results[p].kind # "error"

\* C12 as claimed: for every input whose process() call failed, the value
\* process_batch returns holds a record of that input and its error.
C12_FailureRecordReturned ==
    bstate = "returned" =>
        \A i \in Inputs :
            outcome[i].kind = "error" =>
                \E p \in 1..Len(results) :
                    /\ results[p].kind = "error"
                    /\ results[p].of = i
                    /\ results[p].error = outcome[i].error

\* C13 as claimed: the transcript at every position of the returned list is
\* the transcript of the input at that position, also when inputs failed.
C13_IthTranscriptIsOfIthInput ==
    bstate = "returned" =>
        \A p \in 1..Len(results) :
            results[p].kind = "transcript" => results[p].of = AudioFileOf(p)

CallRunning(i) == tcall[i] = "running" \/ dcall[i] = "running"

\* C14 as claimed: with max_concurrent = 1 the items are handled one after
\* another in input order: no capability call of an item runs while a call
\* of another item runs, an item's calls start only when every call of the
\* earlier items has ended, and the result is that of the sequential run.
C14_CeilingOneIsSequential ==
    max_concurrent = 1 =>
        /\ \A i, j \in Inputs :
              (i # j /\ CallRunning(i)) => ~CallRunning(j)
        /\ \A i, j \in Inputs :
              (i < j /\ tcall[j] # "none") => ~CallRunning(i)
        /\ bstate = "returned" => results = TranscriptsOfSucceeded

\* C15: the process() calls start in input order: at every moment the inputs
\* whose process() call has started are the first inputs of the batch, and
\* they started in that order.
C15_AdmissionInInputOrder ==
    admitted = [k \in 1..Len(admitted) |-> k]

\* C15 witness: the ceiling is below the number of inputs, a task ended
\* before the task of an earlier input, and the process() call of the last
\* input has started, after those of all the others.
C15_Witness ==
    /\ max_concurrent < NumInputs
    /\ overtook
    /\ Len(admitted) = NumInputs
    /\ admitted[NumInputs] = NumInputs
    /\ task[NumInputs] = "running"

-----------------------------------------------------------------------------
(* Properties of the resource scope (SpecScope) *)

Outside == scope = "outside"
\* the scope was left through __aexit__ (the body ran)
Left == Outside /\ body # "none"
Attempted(engine) == \E p \in 1..Len(unloads) : unloads[p] = engine

C17_UnloadsInReverseOrder ==
    options.diarization_engine =>
        \A q \in 1..Len(unloads) :
            unloads[q] = "transcription" =>
                \E p \in 1..(q - 1) : unloads[p] = "diarization"

\* C18 as claimed: when an unload raised on exit, the unload of the other
\* engine was attempted all the same.
C18_OtherUnloadStillAttempted ==
    (Left /\ observed = "unload_error" /\ options.diarization_engine) =>
        Attempted("transcription") /\ Attempted("diarization")

\* C19 as claimed: the statement ends as the body ended, with its result or
\* with its exception, whatever the unload calls did.
C19_UnloadErrorNeverMasks ==
    Left => observed = body

\* C20 as claimed: outside the scope no engine is loaded, also after an
\* entry in which a load failed.
C20_NothingLoadedOutsideScope ==
    Outside => ~t_loaded /\ ~d_loaded

-----------------------------------------------------------------------------
\* the branch of process() that calls transcribe() only (lines 68-69)
TranscribeOnly == ~options.enable_diarization \/ ~options.diarization_engine

\* C21: when diarization is disabled or no diarization engine was given,
\* process() invokes transcribe() only: diarize() is not invoked for any input
\* and the merge does not run, and the transcript returned is the one
\* transcribe() produced, every speaker_id null and speakers empty (only
\* processing_time is set by process() itself, line 72).
C21_TranscribeOnlyReturnsTranscription ==
    TranscribeOnly =>
        /\ \A i \in Inputs : dcall[i] = "none" /\ ~merged[i]
        /\ mstate # "merged"
        /\ transcript.segments = transcribed.segments
        /\ \A k \in 1..Len(transcript.segments) : transcript.segments[k].speaker_id = None
        /\ transcript.speakers = <<>>
        /\ mstate = "ready" => transcript = transcribed
        /\ mstate = "returned" => transcript = SetProcessingTime(transcribed)

C21_Witness ==
    /\ options.enable_diarization
    /\ ~options.diarization_engine
    /\ mstate = "returned"
    /\ Len(transcribed.segments) = 2
    /\ transcript = SetProcessingTime(transcribed)
    /\ transcript.segments[2].speaker_id = None

\* C23: when diarization yields no turn, the merge leaves every segment's
\* speaker_id null and the transcript's speakers empty.
C23_NoTurnsNoSpeakers ==
    (mstate \in {"merged", "returned"} /\ ~TranscribeOnly /\ diarized.timestamps = <<>>) =>
        /\ \A k \in 1..Len(transcript.segments) : transcript.segments[k].speaker_id = None
        /\ transcript.speakers = <<>>

C23_Witness ==
    /\ Merged
    /\ ~TranscribeOnly
    /\ diarized.timestamps = <<>>
    /\ Len(transcript.segments) = 2
    /\ \A k \in 1..2 : transcript.segments[k].speaker_id = None
    /\ transcript.speakers = <<>>

\* C24: the merge changes nothing of the transcript but the segments'
\* speaker_id and the speakers list: every other field of every segment and
\* of the transcript is as transcribe() returned it, and speakers is exactly
\* the list diarize() returned.
C24_MergeChangesOnlySpeakers ==
    Merged =>
        /\ Len(transcript.segments) = Len(transcribed.segments)
        /\ transcript =
             [transcribed EXCEPT
                !.segments = [k \in 1..Len(transcribed.segments) |->
                                [transcribed.segments[k] EXCEPT
                                    !.speaker_id = transcript.segments[k].speaker_id]],
                !.speakers = diarized.speakers]

C24_Witness ==
    /\ Merged
    /\ Len(diarized.speakers) = 2
    /\ transcript.speakers = diarized.speakers
    /\ Len(transcript.segments) = 2
    /\ transcript.segments[1].speaker_id # None
    /\ transcript.segments[2].speaker_id = None
    /\ transcript.segments[1].text = transcribed.segments[1].text
    /\ transcript.metadata = transcribed.metadata

\* C29: the merge never resets a speaker attribution.  A segment whose
\* greatest overlap with the turns is 0, or whose best turn (the first of
\* greatest overlap) has an empty speaker id, leaves the merge with the
\* speaker_id it entered with, non-null ones included; and a speaker_id the
\* merge changed is the non-empty speaker id of a turn.
C29_MergeNeverResetsSpeaker ==
    Merged =>
        \A i \in SegIdx :
            LET before == transcribed.segments[i].speaker_id
                after == transcript.segments[i].speaker_id
            IN /\ (\/ GreatestOverlap(i) = 0
                   \/ diarized.timestamps[FirstGreatest(i)].speaker_id = "")
                      => after = before
               /\ after # before =>
                      \E k \in TurnIdx : /\ diarized.timestamps[k].speaker_id # ""
                                         /\ after = Some(diarized.timestamps[k].speaker_id)

C29_Witness ==
    /\ Merged
    /\ Len(transcribed.segments) = 2
    /\ Len(diarized.timestamps) = 2
    /\ transcribed.segments[1].speaker_id = Some("PRESET")
    /\ GreatestOverlap(1) = 0
    /\ transcript.segments[1].speaker_id = Some("PRESET")
    /\ transcribed.segments[2].speaker_id = Some("PRESET")
    /\ GreatestOverlap(2) > 0
    /\ diarized.timestamps[FirstGreatest(2)].speaker_id = ""
    /\ transcript.segments[2].speaker_id = Some("PRESET")

\* a capability call that raised
CallFailed(c) == c \notin {"none", "running", "done"}

\* the call of input i to the capability of `stage`
CallOf(i, stage) == IF stage = "transcription" THEN tcall[i] ELSE dcall[i]

\* a call is invoked only when it was not invoked before, and a call that
\* ended is never run again
InvokedAtMostOnce ==
    \A i \in Inputs :
        /\ (tcall'[i] = "running" /\ tcall[i] # "running") => tcall[i] = "none"
        /\ (dcall'[i] = "running" /\ dcall[i] # "running") => dcall[i] = "none"
        /\ tcall[i] \notin {"none", "running"} => tcall'[i] = tcall[i]
        /\ dcall[i] \notin {"none", "running"} => dcall'[i] = dcall[i]

\* the exception process() raised is the one of the first call that failed
RaisesFirstError ==
    \A i \in Inputs :
        outcome[i].kind = "error" =>
            LET exc == outcome[i].error
            IN /\ exc.stage \in {"transcription", "diarization"}
               /\ CallOf(i, exc.stage) = exc.kind
               /\ (CallFailed(tcall[i]) /\ CallFailed(dcall[i])) => exc.stage = first[i]

\* C22: process() does not retry.  In the process() call of an input
\* transcribe is invoked at most once and diarize at most once, and when a
\* capability call fails the exception process() raises is that of the first
\* call that failed, unchanged.
C22_NoRetryFirstErrorRaised ==
    [](RaisesFirstError) /\ [][InvokedAtMostOnce]_vars

C22_Witness ==
    /\ Branch(options) = "parallel"
    /\ tcall[1] = "Exception"
    /\ dcall[1] = "Exception"
    /\ first[1] = "diarization"
    /\ outcome[1] = Raised(1, Error("diarization", "Exception"))
    /\ pstate[1] = "raised"

\* the merge of input i runs in this step: it starts and ends within the
\* step, process() returns its transcript, and nothing of another input
\* changes
MergeIsOneStep ==
    \A i \in Inputs :
        (merged'[i] /\ ~merged[i]) =>
            /\ pstate'[i] = "returned"
            /\ outcome'[i] = TranscriptOf(i)
            /\ \A j \in Inputs \ {i} :
                  /\ tcall'[j] = tcall[j]
                  /\ dcall'[j] = dcall[j]
                  /\ merged'[j] = merged[j]
                  /\ pstate'[j] = pstate[j]

\* a process() call that is suspended is awaiting a capability call
SuspendedOnlyAtCalls ==
    \A i \in Inputs :
        pstate[i] \in {"gather", "await_t", "await_d"} => CallRunning(i)

FailedInputs == {i \in Inputs : outcome[i].kind = "error"}

\* the transcripts in the list process_batch returned
ReturnedTranscripts == {k \in 1..Len(results) : results[k].kind = "transcript"}

\* how often process() was entered for input i
TimesAdmitted(i) == Cardinality({k \in 1..Len(admitted) : admitted[k] = i})

\* C28: process_batch invokes process() exactly once for every input: never
\* twice, and by the time it returns once for each, whatever failed before;
\* the transcripts returned and the inputs whose process() call failed add
\* up to the number of inputs.
C28_EveryInputProcessedOnce ==
    /\ \A i \in Inputs : TimesAdmitted(i) <= 1
    /\ \A i \in Inputs : TimesAdmitted(i) = 1 <=> task[i] \in {"running", "finished"}
    /\ bstate = "returned" =>
          /\ \A i \in Inputs : TimesAdmitted(i) = 1
          /\ Cardinality(ReturnedTranscripts) + Cardinality(FailedInputs) = NumInputs

C28_Witness ==
    /\ bstate = "returned"
    /\ max_concurrent = 1
    /\ outcome[1].kind = "error"
    /\ outcome[2].kind = "transcript"
    /\ outcome[3].kind = "error"
    /\ Len(admitted) = 3
    /\ Len(results) = 1

\* the permits in use: one per task inside `async with semaphore`, one per
\* waiter that was woken and has not resumed yet
PermitsHeld == Cardinality({i \in Inputs : task[i] \in {"running", "woken"}})

\* C27: process_batch terminates.  When every capability call ends, every
\* input that queued for a permit is admitted and process_batch returns, for
\* every ceiling; a permit taken is given back however the item ended, so
\* permits free and permits held always add up to max_concurrent.
C27_BatchTerminates ==
    /\ [](sem >= 0 /\ sem + PermitsHeld = max_concurrent)
    /\ <>(/\ bstate = "returned"
          /\ \A i \in Inputs : \E k \in 1..Len(admitted) : admitted[k] = i
          /\ waiters = <<>>
          /\ sem = max_concurrent)

C27_Witness ==
    /\ bstate = "returned"
    /\ max_concurrent = 1
    /\ outcome[1].kind = "error"
    /\ outcome[2].kind = "error"
    /\ admitted = <<1, 2, 3>>
    /\ sem = 1
    /\ waiters = <<>>

\* C26 as claimed: once the scope has been left, no transcribe or diarize
\* call started inside it is still running, whatever failed inside.
C26_NoCallRunsAfterScopeExit ==
    scope = "outside" => \A i \in Inputs : ~CallRunning(i)

\* the rows a run that meets no exception writes, creation included
Lifecycle == <<CreateTask>> \o Stages

FinalStatuses == {"completed", "failed"}

====
